---- MODULE Spec2Model ----
(***************************************************************************)
(* Image-source shoebox room simulator core                                *)
(* (framework/modules/saf_reverb/saf_reverb_internal.c).                   *)
(*                                                                         *)
(* Single-precision floats are represented as fixed-point integers with    *)
(* One units per 1.0f.  All positions used below are multiples of 0.5 and  *)
(* all d_max values are whole numbers of units, so squares, sums and the   *)
(* comparison s_d < d_max are exact in this representation.                *)
(* C arrays are functions on 0 .. n-1.                                     *)
(***************************************************************************)
EXTENDS Integers, Sequences, FiniteSets, TLC

----------------------------------------------------------------------------
(* Bounds *)

\* maxTime_s ranges over 0.5 s .. MaxTicks * 0.5 s
MaxTicks == 2
\* number of octave bands of a workspace that is rendered
MaxBands == 2

----------------------------------------------------------------------------
(* Float arithmetic *)

\* fixed-point representation of 1.0f
One == 10 * 10

Abs(x) == IF x < 0 THEN -x ELSE x

\* C division of integers truncates toward zero
TDiv(a, b) == IF (a < 0) = (b < 0) THEN Abs(a) \div Abs(b) ELSE -(Abs(a) \div Abs(b))

\* (float)n
F(n) == n * One

\* a*b and a/b on floats
FMul(a, b) == TDiv(a * b, One)
FDiv(a, b) == TDiv(a * One, b)

\* (int)x : conversion of a float to int truncates toward zero
ToInt(x) == TDiv(x, One)

RECURSIVE ISqrtBetween(_, _, _)
ISqrtBetween(x, lo, hi) ==
    IF lo >= hi THEN lo
    ELSE LET mid == (lo + hi + 1) \div 2
         IN IF mid * mid <= x THEN ISqrtBetween(x, mid, hi)
            ELSE ISqrtBetween(x, lo, mid - 1)

\* sqrtf(x); the search interval keeps mid * mid inside the machine integers
Sqrtf(x) == ISqrtBetween(x * One, 0, IF x < 400 * One THEN x + One ELSE 400 * One)

\* powf(b, e); every exponent the simulator passes is integer valued
RECURSIVE Powf(_, _)
Powf(b, e) ==
    IF e = 0 THEN One
    ELSE IF e > 0 THEN FMul(b, Powf(b, e - One))
    ELSE FDiv(One, Powf(b, -e))

----------------------------------------------------------------------------
(* Inputs *)

Handles == {1}

Rooms == {<<2, 5, 5>>, <<3, 5, 5>>}

Half == One \div 2

\* source / receiver position pairs (x, y, z as floats, metres), all inside
\* both rooms and off the walls; in the third the two are less than 1 m apart
Scenes ==
    { [src |-> <<2 * Half, 1 * Half, 1 * Half>>, rec |-> <<1 * Half, 3 * Half, 2 * Half>>],
      [src |-> <<3 * Half, 1 * Half, 1 * Half>>, rec |-> <<2 * Half, 3 * Half, 2 * Half>>],
      [src |-> <<2 * Half, 1 * Half, 1 * Half>>, rec |-> <<2 * Half, 2 * Half, 1 * Half>>] }

MaxTimes == {k * Half : k \in 1 .. MaxTicks}

SoundSpeeds == {F(1), F(2)}

NULL == [null |-> TRUE]

----------------------------------------------------------------------------
(* State *)

VARIABLES
    W,      \* handle -> ims_core_workspace, or NULL
    stage,  \* handle -> how far the caller's pipeline has run since the last coreInit
    last,   \* the last call made and its arguments
    rir     \* handle -> the caller's ims_rir for that workspace

vars == <<W, stage, last, rir>>

----------------------------------------------------------------------------
(* Echogram container *)

\* an array held in memory: a function given by its values, not by a rule
Stored(f) == f @@ <<>>

\* number of elements of an array
Len0(f) == Cardinality(DOMAIN f)

\* realloc of a flat array: the old prefix survives, the tail is indeterminate
\* (never read before it is written; held as 0)
Realloc1d(old, n, fill) == [i \in 0 .. n - 1 |-> IF i \in DOMAIN old THEN old[i] ELSE fill]

Realloc2d(old, n, m) ==
    [i \in 0 .. n - 1 |-> [j \in 0 .. m - 1 |->
        IF i \in DOMAIN old /\ j \in DOMAIN old[i] THEN old[i][j] ELSE 0]]

ims_shoebox_echogramCreate ==
    [ numImageSources |-> 0,
      nChannels       |-> 0,
      value           |-> <<>>,
      time            |-> <<>>,
      order           |-> <<>>,
      coords          |-> <<>>,
      sortedIdx       |-> <<>> ]

\* ims_shoebox_echogramResize that looks at the number of image sources only
EchogramResizeCountOnly(ec, numImageSources, nChannels) ==
    IF ec.numImageSources # numImageSources
    THEN [ numImageSources |-> numImageSources,
           nChannels       |-> nChannels,
           value           |-> Realloc2d(ec.value, numImageSources, nChannels),
           time            |-> Realloc1d(ec.time, numImageSources, 0),
           order           |-> Realloc1d(ec.order, numImageSources, <<0, 0, 0>>),
           coords          |-> Realloc1d(ec.coords, numImageSources, <<0, 0, 0>>),
           sortedIdx       |-> Realloc1d(ec.sortedIdx, numImageSources, 0) ]
    ELSE ec

ims_shoebox_echogramResize(ec, numImageSources, nChannels) ==
    IF ec.nChannels # nChannels \/ ec.numImageSources # numImageSources
    THEN [ numImageSources |-> numImageSources,
           nChannels       |-> nChannels,
           value           |-> Realloc2d(ec.value, numImageSources, nChannels),
           time            |-> Realloc1d(ec.time, numImageSources, 0),
           order           |-> Realloc1d(ec.order, numImageSources, <<0, 0, 0>>),
           coords          |-> Realloc1d(ec.coords, numImageSources, <<0, 0, 0>>),
           sortedIdx       |-> Realloc1d(ec.sortedIdx, numImageSources, 0) ]
    ELSE ec

----------------------------------------------------------------------------
(* Workspace *)

NewWorkspace(nBands) ==
    [ d_max           |-> 0,
      lengthVec       |-> 0,
      numImageSources |-> 0,
      room            |-> <<0, 0, 0>>,
      src             |-> <<-One, -One, -One>>,
      rec             |-> <<-One, -One, -One>>,
      nBands          |-> nBands,
      Nx |-> 0, Ny |-> 0, Nz |-> 0,
      validIDs        |-> <<>>,
      II |-> <<>>, JJ |-> <<>>, KK |-> <<>>,
      s_x |-> <<>>, s_y |-> <<>>, s_z |-> <<>>, s_d |-> <<>>,
      hEchogram       |-> ims_shoebox_echogramCreate,
      hEchogram_rec   |-> ims_shoebox_echogramCreate,
      hEchogram_abs   |-> [band \in 0 .. nBands - 1 |-> ims_shoebox_echogramCreate],
      rir_len_samples |-> 0,
      rir_bands       |-> [band \in 0 .. nBands - 1 |-> <<>>] ]

Init ==
    /\ W = [h \in Handles |-> NULL]
    /\ stage = [h \in Handles |-> 0]
    /\ last = [op |-> "none"]
    /\ rir = [h \in Handles |-> [length |-> 0, nChannels |-> 0, data |-> <<>>]]

ims_shoebox_coreWorkspaceCreate(h, nBands) ==
    /\ W' = [W EXCEPT ![h] = NewWorkspace(nBands)]
    /\ stage' = [stage EXCEPT ![h] = 0]
    /\ last' = [op |-> "create", h |-> h, nBands |-> nBands]
    /\ UNCHANGED rir

\* Heap blocks are named <<owner, index, part>>.
\* The blocks of one echogram: the struct malloc'd by echogramCreate and the
\* five arrays echogramResize reallocs once the echogram has been given a size
EchogramBlocks(role, k, ec) ==
    {<<role, k, "struct">>}
    \cup (IF ec.numImageSources > 0 /\ ec.nChannels > 0
          THEN {<<role, k, part>> : part \in {"value", "time", "order", "coords", "sortedIdx"}}
          ELSE {})

\* the arrays coreInit reallocs for the lattice
LatticeArrays == {"validIDs", "II", "JJ", "KK", "s_x", "s_y", "s_z", "s_d", "s_t", "s_att"}

\* every block allocated on behalf of a workspace and not yet freed
WorkspaceBlocks(wrk) ==
    {<<"wrk", 0, "struct">>, <<"hEchogram_abs", 0, "array">>, <<"rir_bands", 0, "array">>}
    \cup EchogramBlocks("hEchogram", 0, wrk.hEchogram)
    \cup EchogramBlocks("hEchogram_rec", 0, wrk.hEchogram_rec)
    \cup UNION {EchogramBlocks("hEchogram_abs[band]", band, wrk.hEchogram_abs[band]) :
                   band \in 0 .. wrk.nBands - 1}
    \cup (IF wrk.lengthVec > 0 THEN {<<a, 0, "array">> : a \in LatticeArrays} ELSE {})
    \cup {<<"rir_bands[band]", band, "buffer">> :
             band \in {b \in 0 .. wrk.nBands - 1 : DOMAIN wrk.rir_bands[b] # {}}}

\* the blocks ims_shoebox_echogramDestroy frees
EchogramDestroyFrees(role, k) ==
    {<<role, k, part>> : part \in {"value", "time", "order", "coords", "sortedIdx", "struct"}}

\* the blocks the free calls of ims_shoebox_coreWorkspaceDestroy name
DestroyFrees(wrk) ==
    {<<a, 0, "array">> : a \in LatticeArrays}
    \cup EchogramDestroyFrees("hEchogram", 0)
    \cup EchogramDestroyFrees("hEchogram_rec", 0)
    \cup UNION {EchogramDestroyFrees("hEchogram_abs[band]", band) : band \in 0 .. wrk.nBands - 1}
    \cup {<<"hEchogram_abs", 0, "array">>}
    \cup {<<"rir_bands[band]", band, "buffer">> : band \in 0 .. wrk.nBands - 1}
    \cup {<<"wrk", 0, "struct">>}

\* what is still allocated once Destroy has returned
LiveAfterDestroy(wrk) == WorkspaceBlocks(wrk) \ DestroyFrees(wrk)

\* ims_shoebox_coreWorkspaceDestroy releasing every workspace, not only its own
DestroyEveryWorkspace(h) ==
    /\ W[h] # NULL
    /\ W' = [g \in DOMAIN W |-> NULL]
    /\ stage' = [stage EXCEPT ![h] = 0]
    /\ last' = [op |-> "destroy", h |-> h,
                \* the blocks of the workspace the call left allocated
                live |-> LiveAfterDestroy(W[h])]
    /\ UNCHANGED rir

ims_shoebox_coreWorkspaceDestroy(h) ==
    /\ W[h] # NULL
    /\ W' = [W EXCEPT ![h] = NULL]
    /\ stage' = [stage EXCEPT ![h] = 0]
    /\ last' = [op |-> "destroy", h |-> h,
                \* the blocks of the workspace the call left allocated
                live |-> LiveAfterDestroy(W[h])]
    /\ UNCHANGED rir

----------------------------------------------------------------------------
(* ims_shoebox_coreInit *)

\* number of lattice steps along one axis: (int)(d_max/(float)room[a] + 1.0f)
LatticeExtent(d_max, L) == ToInt(FDiv(d_max, F(L)) + One)

\* OdometerStep with jj carrying into kk one step early
OdometerStepEarlyCarry(t, Nx, Ny, Nz) ==
    LET ii1 == t[1] + 1
        jj1 == IF ii1 > Nx THEN t[2] + 1 ELSE t[2]
        kk1 == IF jj1 >= Ny THEN t[3] + 1 ELSE t[3]
    IN << IF ii1 > Nx THEN -Nx ELSE ii1,
          IF jj1 >= Ny THEN -Ny ELSE jj1,
          IF kk1 > Nz THEN -Nz ELSE kk1 >>

\* one pass of the loop body that steps (ii, jj, kk)
OdometerStep(t, Nx, Ny, Nz) ==
    LET ii1 == t[1] + 1
        jj1 == IF ii1 > Nx THEN t[2] + 1 ELSE t[2]
        kk1 == IF jj1 > Ny THEN t[3] + 1 ELSE t[3]
    IN << IF ii1 > Nx THEN -Nx ELSE ii1,
          IF jj1 > Ny THEN -Ny ELSE jj1,
          IF kk1 > Nz THEN -Nz ELSE kk1 >>

\* the odometer loop that fills II, JJ, KK with (float)ii, (float)jj, (float)kk
RECURSIVE Odometer(_, _, _, _, _, _)
Odometer(todo, t, Nx, Ny, Nz, acc) ==
    IF todo = 0 THEN acc
    ELSE Odometer(todo - 1, OdometerStep(t, Nx, Ny, Nz), Nx, Ny, Nz,
                  Append(acc, <<F(t[1]), F(t[2]), F(t[3])>>))

\* first block of coreInit: regenerate the lattice indices
UpdateIndices(wrk, room, d_max) ==
    LET Nx == LatticeExtent(d_max, room[1])
        Ny == LatticeExtent(d_max, room[2])
        Nz == LatticeExtent(d_max, room[3])
        lengthVec == (2 * Nx + 1) * (2 * Ny + 1) * (2 * Nz + 1)
        odo == Odometer(lengthVec, <<-Nx, -Ny, -Nz>>, Nx, Ny, Nz, <<>>)
    IN [wrk EXCEPT
          !.d_max = d_max,
          !.room = room,
          !.Nx = Nx, !.Ny = Ny, !.Nz = Nz,
          !.lengthVec = lengthVec,
          !.II = Stored([i \in 0 .. lengthVec - 1 |-> odo[i + 1][1]]),
          !.JJ = Stored([i \in 0 .. lengthVec - 1 |-> odo[i + 1][2]]),
          !.KK = Stored([i \in 0 .. lengthVec - 1 |-> odo[i + 1][3]]),
          !.validIDs = Realloc1d(wrk.validIDs, lengthVec, 0),
          !.s_x = Realloc1d(wrk.s_x, lengthVec, 0),
          !.s_y = Realloc1d(wrk.s_y, lengthVec, 0),
          !.s_z = Realloc1d(wrk.s_z, lengthVec, 0),
          !.s_d = Realloc1d(wrk.s_d, lengthVec, 0)]

\* image-source coordinate along one axis
ImageCoord(I, L, src_o, rec_o) == FMul(I, F(L)) + FMul(Powf(-One, I), src_o) - rec_o

\* distance of an image source from the receiver
ImageDist(x, y, z) == Sqrtf(Powf(x, F(2)) + Powf(y, F(2)) + Powf(z, F(2)))

\* the cull test
WithinMax(d, d_max) == d < d_max

\* PropGain without the clamp below one metre
PropGainUnclamped(d) == FDiv(One, d)

\* propagation attenuation
PropGain(d) == IF d <= One THEN One ELSE FDiv(One, d)

\* (int)(x + 0.5f)
RoundToInt(x) == ToInt(x + Half)

\* sortf(in, NULL, idx, len, descendFLAG): the indices that put the values in
\* ascending (descendFLAG = 0) or descending order; the input is left as it is
sortf(in, len, descendFLAG) ==
    LET Before(a, b) == IF descendFLAG = 0 THEN a < b ELSE a > b
        rank == Stored([i \in 0 .. len - 1 |->
                    Cardinality({j \in 0 .. len - 1 :
                        Before(in[j], in[i]) \/ (in[j] = in[i] /\ j < i)})])
    IN Stored([k \in 0 .. len - 1 |-> CHOOSE i \in 0 .. len - 1 : rank[i] = k])

\* EchogramSortedIdx with the descend flag set
EchogramSortedIdxDescending(time, len) == sortf(time, len, 1)

\* "Find indices to sort reflections according to propagation time (accending order)"
EchogramSortedIdx(time, len) == sortf(time, len, 0)

\* the valid lattice indices in enumeration order
ValidSeq(validIDs, lengthVec) ==
    SelectSeq([i \in 1 .. lengthVec |-> i - 1], LAMBDA i : validIDs[i] # 0)

\* what coreInit does with the raw echogram once the image sources are known
FillEchogram(wrk, ec0, c_ms) ==
    LET ec == ims_shoebox_echogramResize(ec0, wrk.numImageSources, 1)
        vs == ValidSeq(wrk.validIDs, wrk.lengthVec)
        n  == Len(vs)
        time == Stored([v \in 0 .. n - 1 |-> FDiv(wrk.s_d[vs[v + 1]], c_ms)])
    IN [ec EXCEPT
          !.time = time,
          !.value = [v \in 0 .. n - 1 |-> [c \in 0 .. 0 |-> PropGain(wrk.s_d[vs[v + 1]])]],
          !.order = [v \in 0 .. n - 1 |-> <<RoundToInt(wrk.II[vs[v + 1]]),
                                            RoundToInt(wrk.JJ[vs[v + 1]]),
                                            RoundToInt(wrk.KK[vs[v + 1]])>>],
          !.coords = [v \in 0 .. n - 1 |-> <<wrk.s_x[vs[v + 1]], wrk.s_y[vs[v + 1]], wrk.s_z[vs[v + 1]]>>],
          !.sortedIdx = EchogramSortedIdx(time, ec.numImageSources)]

\* second block of coreInit: recompute the image sources and the raw echogram
UpdateEchogram(wrk, room, src_orig, rec_orig, d_max, c_ms) ==
    LET idx == 0 .. wrk.lengthVec - 1
        s_x == Stored([i \in idx |-> ImageCoord(wrk.II[i], room[1], src_orig[1], rec_orig[1])])
        s_y == Stored([i \in idx |-> ImageCoord(wrk.JJ[i], room[2], src_orig[2], rec_orig[2])])
        s_z == Stored([i \in idx |-> ImageCoord(wrk.KK[i], room[3], src_orig[3], rec_orig[3])])
        s_d == Stored([i \in idx |-> ImageDist(s_x[i], s_y[i], s_z[i])])
        validIDs == Stored([i \in idx |-> IF WithinMax(s_d[i], d_max) THEN 1 ELSE 0])
        w1 == [wrk EXCEPT
                 !.room = room, !.rec = rec_orig, !.src = src_orig,
                 !.s_x = s_x, !.s_y = s_y, !.s_z = s_z, !.s_d = s_d,
                 !.validIDs = validIDs,
                 !.numImageSources = Cardinality({i \in idx : validIDs[i] = 1})]
    IN [w1 EXCEPT !.hEchogram = FillEchogram(w1, wrk.hEchogram, c_ms)]

\* CentreSrc with y centred like x and z
CentreSrcNoFlip(room, p) ==
    << p[1] - FDiv(F(room[1]), F(2)),
       p[2] - FDiv(F(room[2]), F(2)),
       p[3] - FDiv(F(room[3]), F(2)) >>

\* move origin to the centre of the room
CentreSrc(room, p) ==
    << p[1] - FDiv(F(room[1]), F(2)),
       FDiv(F(room[2]), F(2)) - p[2],
       p[3] - FDiv(F(room[3]), F(2)) >>

\* IndicesStale without the comparison of the maximum distance
IndicesStaleRoomOnly(wrk, room, d_max) ==
    wrk.room[1] # room[1] \/ wrk.room[2] # room[2] \/ wrk.room[3] # room[3]

\* "Update indices only if the maximum permitted delay or room dimensions have changed"
IndicesStale(wrk, room, d_max) ==
    wrk.d_max # d_max \/ wrk.room[1] # room[1] \/ wrk.room[2] # room[2] \/ wrk.room[3] # room[3]

\* EchogramStale with the cached source compared against the receiver
EchogramStaleSrcVsRec(wrk, room, src_orig, rec_orig) ==
    \/ wrk.rec # rec_orig
    \/ wrk.src # rec_orig
    \/ wrk.room[1] # room[1] \/ wrk.room[2] # room[2] \/ wrk.room[3] # room[3]

\* "Update echogram only if the source/receiver positions or room dimensions have changed"
EchogramStale(wrk, room, src_orig, rec_orig) ==
    \/ wrk.rec # rec_orig
    \/ wrk.src # src_orig
    \/ wrk.room[1] # room[1] \/ wrk.room[2] # room[2] \/ wrk.room[3] # room[3]

\* the workspace after the first block of coreInit
AfterIndices(wrk, room, d_max) ==
    IF IndicesStale(wrk, room, d_max) THEN UpdateIndices(wrk, room, d_max) ELSE wrk

CoreInitResult(wrk, room, src, rec, maxTime_s, c_ms) ==
    LET d_max == FMul(maxTime_s, c_ms)
        src_orig == CentreSrc(room, src)
        rec_orig == CentreSrc(room, rec)
        w1 == AfterIndices(wrk, room, d_max)
    IN IF EchogramStale(w1, room, src_orig, rec_orig)
       THEN UpdateEchogram(w1, room, src_orig, rec_orig, d_max, c_ms)
       ELSE w1

ims_shoebox_coreInit(h, room, src, rec, maxTime_s, c_ms) ==
    /\ W[h] # NULL
    /\ W' = [W EXCEPT ![h] = CoreInitResult(W[h], room, src, rec, maxTime_s, c_ms)]
    /\ stage' = [stage EXCEPT ![h] = 1]
    /\ last' = [op |-> "coreInit", h |-> h, room |-> room, src |-> src, rec |-> rec,
                maxTime_s |-> maxTime_s, c_ms |-> c_ms,
                \* which of the two blocks this call ran
                updIdx  |-> IndicesStale(W[h], room, FMul(maxTime_s, c_ms)),
                updEcho |-> EchogramStale(AfterIndices(W[h], room, FMul(maxTime_s, c_ms)), room,
                                          CentreSrc(room, src), CentreSrc(room, rec)),
                \* whether the arguments repeat those of the call before
                again   |-> /\ last.op = "coreInit"
                            /\ last.h = h
                            /\ <<last.room, last.src, last.rec, last.maxTime_s, last.c_ms>>
                                 = <<room, src, rec, maxTime_s, c_ms>>]
    /\ UNCHANGED rir

----------------------------------------------------------------------------
(* ims_shoebox_coreRecModuleSH *)

\* ORDER2NSH(order)
ORDER2NSH(order) == (order + 1) * (order + 1)

\* unitCart2Sph followed by getSHreal_recur: the real spherical-harmonic
\* weights of the direction of xyz, for orders 0 and 1 (channel 0 is the
\* constant 1/sqrt(4 pi), channels 1..3 are sqrt(3/(4 pi)) times y, z, x of
\* the unit vector; the zero vector has azimuth 0 and elevation 0)
SHGains(sh_order, xyz) ==
    LET n == ImageDist(xyz[1], xyz[2], xyz[3])
        u == IF n = 0 THEN <<One, 0, 0>>
             ELSE <<FDiv(xyz[1], n), FDiv(xyz[2], n), FDiv(xyz[3], n)>>
        Y00 == 28
        Y1  == 49
    IN [j \in 0 .. ORDER2NSH(sh_order) - 1 |->
          CASE j = 0 -> Y00
            [] j = 1 -> FMul(Y1, u[2])
            [] j = 2 -> FMul(Y1, u[3])
            [] j = 3 -> FMul(Y1, u[1])
            [] OTHER -> 0]

\* RecSource without the indirection through sortedIdx
RecSourceInPlace(echogram, i) == i

\* the index of the raw arrival that output arrival i is copied from
RecSource(echogram, i) == echogram.sortedIdx[i]

\* RecValue with the spherical-harmonic weights applied at order 0 as well
RecValueWeighted(echogram, coords, sh_order, i) ==
    LET sh_gains == SHGains(sh_order, coords)
    IN [j \in 0 .. ORDER2NSH(sh_order) - 1 |->
           FMul(sh_gains[j], echogram.value[echogram.sortedIdx[i]][0])]

\* RecValue with the direction taken from raw arrival i, not from the arrival
\* the gain is copied from
RecValueRawDirection(echogram, coords, sh_order, i) ==
    IF sh_order = 0
    THEN [j \in 0 .. 0 |-> echogram.value[echogram.sortedIdx[i]][0]]
    ELSE LET sh_gains == SHGains(sh_order, echogram.coords[i])
         IN [j \in 0 .. ORDER2NSH(sh_order) - 1 |->
                FMul(sh_gains[j], echogram.value[echogram.sortedIdx[i]][0])]

\* the gains of output arrival i
RecValue(echogram, coords, sh_order, i) ==
    IF sh_order = 0
    THEN [j \in 0 .. 0 |-> echogram.value[echogram.sortedIdx[i]][0]]
    ELSE LET sh_gains == SHGains(sh_order, coords)
         IN [j \in 0 .. ORDER2NSH(sh_order) - 1 |->
                FMul(sh_gains[j], echogram.value[echogram.sortedIdx[i]][0])]

CoreRecModuleSHResult(wrk, sh_order) ==
    LET echogram == wrk.hEchogram
        nSH == ORDER2NSH(sh_order)
        ec  == ims_shoebox_echogramResize(wrk.hEchogram_rec, echogram.numImageSources, nSH)
        idx == 0 .. ec.numImageSources - 1
        coords == Stored([i \in idx |-> echogram.coords[RecSource(echogram, i)]])
    IN [wrk EXCEPT !.hEchogram_rec =
          [ec EXCEPT
             !.time      = Stored([i \in idx |-> echogram.time[RecSource(echogram, i)]]),
             !.order     = Stored([i \in idx |-> echogram.order[RecSource(echogram, i)]]),
             !.coords    = coords,
             !.sortedIdx = Stored([i \in idx |-> i]),
             !.value     = Stored([i \in idx |-> Stored(RecValue(echogram, coords[i], sh_order, i))])]]

ims_shoebox_coreRecModuleSH(h, sh_order) ==
    /\ W[h] # NULL
    /\ W' = [W EXCEPT ![h] = CoreRecModuleSHResult(W[h], sh_order)]
    /\ stage' = [stage EXCEPT ![h] = 2]
    /\ last' = [op |-> "coreRecModuleSH", h |-> h, sh_order |-> sh_order]
    /\ UNCHANGED rir

----------------------------------------------------------------------------
(* ims_shoebox_coreAbsorptionModule *)

\* a % b in C
CRem(a, b) == a - b * TDiv(a, b)

\* floorf and ceilf
Floorf(x) == (x \div One) * One
Ceilf(x) == -Floorf(-x)

\* AxisAbs with a negative odd order treated like a positive one
AxisAbsUnsigned(m, r) ==
    IF CRem(m, 2) = 0
    THEN FMul(Powf(r[1], FDiv(F(Abs(m)), F(2))), Powf(r[2], FDiv(F(Abs(m)), F(2))))
    ELSE FMul(Powf(r[1], Ceilf(FDiv(F(Abs(m)), F(2)))), Powf(r[2], Floorf(FDiv(F(Abs(m)), F(2)))))

\* attenuation along one axis for the stored reflection order m, with the
\* reflection coefficients r[1], r[2] of its two walls
AxisAbs(m, r) ==
    IF CRem(m, 2) = 0
    THEN FMul(Powf(r[1], FDiv(F(Abs(m)), F(2))), Powf(r[2], FDiv(F(Abs(m)), F(2))))
    ELSE IF m > 0
    THEN FMul(Powf(r[1], Ceilf(FDiv(F(m), F(2)))), Powf(r[2], Floorf(FDiv(F(m), F(2)))))
    ELSE FMul(Powf(r[1], Floorf(FDiv(F(Abs(m)), F(2)))), Powf(r[2], Ceilf(FDiv(F(Abs(m)), F(2)))))

\* ReflCoef taken of the absorption coefficient itself
ReflCoefOfAbsorption(a) == Sqrtf(a)

\* reflection coefficient of a wall
ReflCoef(a) == Sqrtf(One - a)

\* s_abs_tot for one arrival
TotalAbs(order, abs_band) ==
    LET r_x == <<ReflCoef(abs_band[1]), ReflCoef(abs_band[2])>>
        r_y == <<ReflCoef(abs_band[3]), ReflCoef(abs_band[4])>>
        r_z == <<ReflCoef(abs_band[5]), ReflCoef(abs_band[6])>>
    IN FMul(FMul(AxisAbs(order[1], r_x), AxisAbs(order[2], r_y)), AxisAbs(order[3], r_z))

\* utility_svsmul(a, s, len, NULL): a[i] *= s
utility_svsmul(a, s) == Stored([j \in DOMAIN a |-> FMul(a[j], s)])

\* AbsorbBand without the resize of the band's container
AbsorbBandNoResize(echogram_rec, echogram_abs0, abs_band) ==
    [echogram_abs0 EXCEPT
          !.time      = echogram_rec.time,
          !.order     = echogram_rec.order,
          !.coords    = echogram_rec.coords,
          !.sortedIdx = echogram_rec.sortedIdx,
          !.value     = Stored([i \in 0 .. echogram_rec.numImageSources - 1 |->
                            utility_svsmul(echogram_rec.value[i],
                                           TotalAbs(echogram_rec.order[i], abs_band))])]

\* AbsorbBand without the copy of the gains: a band that already has the
\* encoded echogram's size is attenuated from the gains it holds
AbsorbBandCumulative(echogram_rec, echogram_abs0, abs_band) ==
    LET ec == ims_shoebox_echogramResize(echogram_abs0, echogram_rec.numImageSources,
                                         echogram_rec.nChannels)
    IN [ec EXCEPT
          !.time      = echogram_rec.time,
          !.order     = echogram_rec.order,
          !.coords    = echogram_rec.coords,
          !.sortedIdx = echogram_rec.sortedIdx,
          !.value     = Stored([i \in 0 .. ec.numImageSources - 1 |->
                            utility_svsmul(IF ec = echogram_abs0 THEN echogram_abs0.value[i]
                                           ELSE echogram_rec.value[i],
                                           TotalAbs(echogram_rec.order[i], abs_band))])]

\* one band's echogram
AbsorbBand(echogram_rec, echogram_abs0, abs_band) ==
    LET ec == ims_shoebox_echogramResize(echogram_abs0, echogram_rec.numImageSources,
                                         echogram_rec.nChannels)
    IN [ec EXCEPT
          !.time      = echogram_rec.time,
          !.order     = echogram_rec.order,
          !.coords    = echogram_rec.coords,
          !.sortedIdx = echogram_rec.sortedIdx,
          !.value     = Stored([i \in 0 .. ec.numImageSources - 1 |->
                            utility_svsmul(echogram_rec.value[i],
                                           TotalAbs(echogram_rec.order[i], abs_band))])]

\* CoreAbsorptionModuleResult with the attenuation of the last band applied to
\* the encoded echogram as well
CoreAbsorptionModuleInPlace(wrk, abs_wall) ==
    [wrk EXCEPT
        !.hEchogram_abs =
            [band \in 0 .. wrk.nBands - 1 |->
                AbsorbBand(wrk.hEchogram_rec, wrk.hEchogram_abs[band], abs_wall[band])],
        !.hEchogram_rec =
            [@ EXCEPT !.value = AbsorbBand(wrk.hEchogram_rec, wrk.hEchogram_abs[wrk.nBands - 1],
                                           abs_wall[wrk.nBands - 1]).value]]

CoreAbsorptionModuleResult(wrk, abs_wall) ==
    [wrk EXCEPT !.hEchogram_abs =
        [band \in 0 .. wrk.nBands - 1 |->
            AbsorbBand(wrk.hEchogram_rec, wrk.hEchogram_abs[band], abs_wall[band])]]

ims_shoebox_coreAbsorptionModule(h, abs_wall) ==
    /\ W[h] # NULL
    /\ W' = [W EXCEPT ![h] = CoreAbsorptionModuleResult(W[h], abs_wall)]
    /\ stage' = [stage EXCEPT ![h] = 3]
    /\ last' = [op |-> "coreAbsorptionModule", h |-> h, abs_wall |-> abs_wall,
                \* whether the arguments repeat those of the call before
                again |-> /\ last.op = "coreAbsorptionModule"
                          /\ last.h = h
                          /\ last.abs_wall = abs_wall]
    /\ UNCHANGED rir

----------------------------------------------------------------------------
(* ims_shoebox_renderRIR *)

\* length of the band filters is FirOrder + 1 (IMS_FIR_FILTERBANK_ORDER + 1)
FirOrder == 2

\* fftconv(x, h, x_len, h_len, 1, y): y receives the linear convolution
fftconv(x, x_len, hf, h_len) ==
    LET Term(n, k) == IF n - k >= 0 /\ n - k < x_len THEN FMul(hf[k], x[n - k]) ELSE 0
        RECURSIVE Acc(_, _)
        Acc(n, k) == IF k < 0 THEN 0 ELSE Term(n, k) + Acc(n, k - 1)
    IN [n \in 0 .. x_len + h_len - 2 |-> Acc(n, h_len - 1)]

\* EndTime reading the first arrival's time, not the last one's
EndTimeFirstArrival(echogram_abs, garbage) ==
    IF 0 \in DOMAIN echogram_abs.time /\ echogram_abs.numImageSources > 0
    THEN echogram_abs.time[0]
    ELSE garbage

\* the last echo time of a band: time[numImageSources-1].  With no image
\* sources the index is -1, outside the array; the value read is whatever
\* lies there (garbage).
EndTime(echogram_abs, garbage) ==
    IF echogram_abs.numImageSources - 1 \in DOMAIN echogram_abs.time
    THEN echogram_abs.time[echogram_abs.numImageSources - 1]
    ELSE garbage

\* RirLenSamples without the final + 1
RirLenSamplesShort(endtime, fs) == ToInt(FMul(endtime, fs) + One)

\* rir_len_samples = (int)(endtime * fs + 1.0f) + 1
RirLenSamples(endtime, fs) == ToInt(FMul(endtime, fs) + One) + 1

\* refl_idx = (int)(time*fs + 0.5f)
ReflIdx(time, fs) == ToInt(FMul(time, fs) + Half)

\* Deposit that stores the gain over what the sample held
DepositOverwrite(sample, gain) == gain

\* rir_bands[band][j][refl_idx] += value[i][j]
Deposit(sample, gain) == sample + gain

\* one channel of one band's impulse train: flushed, then every arrival's gain accumulated
RECURSIVE Accumulate(_, _, _, _, _)
Accumulate(buf, echogram_abs, j, fs, i) ==
    IF i >= echogram_abs.numImageSources THEN buf
    ELSE LET refl_idx == ReflIdx(echogram_abs.time[i], fs)
         IN Accumulate(IF refl_idx \in DOMAIN buf
                       THEN [buf EXCEPT ![refl_idx] = Deposit(@, echogram_abs.value[i][j])]
                       ELSE buf,
                       echogram_abs, j, fs, i + 1)

RenderBand(echogram_abs, rir_len_samples, fs) ==
    [j \in 0 .. echogram_abs.nChannels - 1 |->
        Accumulate([n \in 0 .. rir_len_samples - 1 |-> 0], echogram_abs, j, fs, 0)]

\* a sample of a band's impulse train as the summing loop reads it
BandSample(rir_band, i, n) ==
    IF i \in DOMAIN rir_band /\ n \in DOMAIN rir_band[i] THEN rir_band[i][n] ELSE 0

\* what the band loop adds into rir->data: utility_svvadd(data, rir_bands[band][i], len, data)
SummedInput(rir_band, hf, i, n, rir_len_samples) == BandSample(rir_band, i, n)

\* rir->data after the filter-and-sum loop
RECURSIVE SumBands(_, _, _, _, _, _)
SumBands(rir_bands, H_filt, band, i, n, rir_len_samples) ==
    IF band < 0 THEN 0
    ELSE SummedInput(rir_bands[band], H_filt[band], i, n, rir_len_samples)
         + SumBands(rir_bands, H_filt, band - 1, i, n, rir_len_samples)

\* number of samples per channel of a band's impulse train
BandLen(rir_band) == IF 0 \in DOMAIN rir_band THEN Len0(rir_band[0]) ELSE 0

\* some index read or written by the render lies outside its array
OutOfBounds(wrk, fs, rir_bands, rir_len_samples) ==
    \E band \in 0 .. wrk.nBands - 1 :
        LET ea == wrk.hEchogram_abs[band]
        IN \/ ea.numImageSources - 1 \notin DOMAIN ea.time
           \/ \E i \in 0 .. ea.numImageSources - 1 :
                 ReflIdx(ea.time[i], fs) \notin 0 .. BandLen(rir_bands[band]) - 1
           \/ (ea.nChannels > 0 /\ BandLen(rir_bands[band]) < rir_len_samples)

RenderResult(wrk, fractionalDelayFLAG, fs, garbage) ==
    LET bands == 0 .. wrk.nBands - 1
        len(band) == RirLenSamples(EndTime(wrk.hEchogram_abs[band], garbage[band]), fs)
    IN IF fractionalDelayFLAG # 0 THEN wrk
       ELSE [wrk EXCEPT
               !.rir_bands = [band \in bands |->
                                 RenderBand(wrk.hEchogram_abs[band], len(band), fs)],
               !.rir_len_samples = len(wrk.nBands - 1)]

\* RirResult that leaves length and nChannels of the rir as they were
RirResultKeepSize(wrk, r, H_filt) ==
    LET echogram_abs == wrk.hEchogram_abs[0]
        len == wrk.rir_len_samples
    IN [ length    |-> r.length,
         nChannels |-> r.nChannels,
         data      |-> Stored([k \in 0 .. echogram_abs.nChannels * len - 1 |->
                          SumBands(wrk.rir_bands, H_filt, wrk.nBands - 1,
                                   k \div len, k % len, len)]) ]

\* RirResult with rir->data flushed only when it is resized
RirResultFlushOnResize(wrk, r, H_filt) ==
    LET echogram_abs == wrk.hEchogram_abs[0]
        len == wrk.rir_len_samples
        resize == echogram_abs.nChannels # r.nChannels \/ len # r.length
    IN [ length    |-> IF resize THEN len ELSE r.length,
         nChannels |-> IF resize THEN echogram_abs.nChannels ELSE r.nChannels,
         data      |-> Stored([k \in 0 .. echogram_abs.nChannels * len - 1 |->
                          (IF ~resize /\ k \in DOMAIN r.data THEN r.data[k] ELSE 0)
                          + SumBands(wrk.rir_bands, H_filt, wrk.nBands - 1,
                                     k \div len, k % len, len)]) ]

RirResult(wrk, r, H_filt) ==
    LET echogram_abs == wrk.hEchogram_abs[0]
        len == wrk.rir_len_samples
    IN [ length    |-> IF echogram_abs.nChannels # r.nChannels \/ len # r.length
                       THEN len ELSE r.length,
         nChannels |-> IF echogram_abs.nChannels # r.nChannels \/ len # r.length
                       THEN echogram_abs.nChannels ELSE r.nChannels,
         data      |-> Stored([k \in 0 .. echogram_abs.nChannels * len - 1 |->
                          SumBands(wrk.rir_bands, H_filt, wrk.nBands - 1,
                                   k \div len, k % len, len)]) ]

ims_shoebox_renderRIR(h, fractionalDelayFLAG, fs, H_filt, garbage) ==
    /\ W[h] # NULL
    /\ LET w1 == RenderResult(W[h], fractionalDelayFLAG, fs, garbage)
       IN /\ W' = [W EXCEPT ![h] = w1]
          /\ rir' = [rir EXCEPT ![h] = RirResult(w1, rir[h], H_filt)]
          /\ last' = [op |-> "renderRIR", h |-> h, fs |-> fs, H_filt |-> H_filt,
                      fractionalDelayFLAG |-> fractionalDelayFLAG,
                      \* whether the arguments repeat those of the call before
                      again |-> /\ last.op = "renderRIR"
                                /\ last.h = h
                                /\ last.fs = fs
                                /\ last.H_filt = H_filt
                                /\ last.fractionalDelayFLAG = fractionalDelayFLAG,
                      resized |-> \/ w1.hEchogram_abs[0].nChannels # rir[h].nChannels
                                  \/ w1.rir_len_samples # rir[h].length,
                      \* the scratch buffer as the last fftconv call left it
                      temp |-> LET b == w1.nBands - 1
                                   j == w1.hEchogram_abs[b].nChannels - 1
                               IN IF j \in DOMAIN w1.rir_bands[b]
                                  THEN fftconv(w1.rir_bands[b][j], w1.rir_len_samples,
                                               H_filt[b], FirOrder + 1)
                                  ELSE <<>>,
                      \* whether every index used lay inside its array
                      endTimeInBounds |-> \A band \in 0 .. w1.nBands - 1 :
                          W[h].hEchogram_abs[band].numImageSources - 1
                              \in DOMAIN W[h].hEchogram_abs[band].time,
                      oob |-> OutOfBounds(W[h], fs, w1.rir_bands, w1.rir_len_samples)]
    /\ stage' = [stage EXCEPT ![h] = 4]

----------------------------------------------------------------------------
(* The callers *)

\* Lattice generation on its own: one workspace, created, initialised again
\* and again with changing room, positions and maximum delay, and destroyed.
Next ==
    \/ \E h \in Handles : ims_shoebox_coreWorkspaceCreate(h, 1)
    \/ \E h \in Handles : ims_shoebox_coreWorkspaceDestroy(h)
    \/ \E h \in Handles, room \in Rooms, sc \in Scenes, t \in MaxTimes, c \in SoundSpeeds :
          ims_shoebox_coreInit(h, room, sc.src, sc.rec, t, c)

Spec == Init /\ [][Next]_vars

\* The whole pipeline as the session layer drives it: lattice generation,
\* directivity encoding, absorption and rendering in that order, each stage
\* run only once the stage before it has run on the current geometry.
PipeRooms == {<<2, 5, 5>>}

PipeScenes ==
    { [src |-> <<2 * Half, 1 * Half, 1 * Half>>, rec |-> <<1 * Half, 3 * Half, 2 * Half>>],
      [src |-> <<2 * Half, 1 * Half, 1 * Half>>, rec |-> <<2 * Half, 2 * Half, 1 * Half>>] }

PipeSpeeds == {F(2)}

PipeTimes == {1 * Half, 2 * Half}

ShOrders == {0, 1}

AllBands == 0 .. MaxBands - 1

\* absorption coefficients per band and wall
AbsWalls ==
    { [band \in AllBands |-> <<0, 0, 0, 0, 0, 0>>],
      [band \in AllBands |-> <<One, One, One, One, One, One>>],
      [band \in AllBands |-> IF band = 0 THEN <<36, 0, 64, 19, 0, 75>>
                             ELSE <<One, One, One, One, One, One>>] }

SampleRates == {F(2)}

\* band filters: a unit impulse (leaves a signal as it is) and a two-tap average
FilterBanks ==
    { [band \in AllBands |-> [k \in 0 .. FirOrder |-> IF k = 0 THEN One ELSE 0]],
      [band \in AllBands |-> [k \in 0 .. FirOrder |-> IF k <= 1 THEN Half ELSE 0]] }

\* values an out-of-bounds read of the time array may return
Garbage == {0, F(2)}

GarbageReads(wrk) ==
    IF \E band \in 0 .. wrk.nBands - 1 : wrk.hEchogram_abs[band].numImageSources = 0
    THEN [0 .. wrk.nBands - 1 -> Garbage]
    ELSE {[band \in 0 .. wrk.nBands - 1 |-> 0]}

NextPipe ==
    \/ \E h \in Handles : W[h] = NULL /\ ims_shoebox_coreWorkspaceCreate(h, MaxBands)
    \/ \E h \in Handles : ims_shoebox_coreWorkspaceDestroy(h)
    \/ \E h \in Handles, room \in PipeRooms, sc \in PipeScenes, t \in PipeTimes, c \in PipeSpeeds :
          stage[h] \in {0, 3, 4} /\ ims_shoebox_coreInit(h, room, sc.src, sc.rec, t, c)
    \/ \E h \in Handles, sh_order \in ShOrders :
          stage[h] \in {1, 2} /\ ims_shoebox_coreRecModuleSH(h, sh_order)
    \/ \E h \in Handles, abs_wall \in AbsWalls :
          stage[h] \in {2, 3} /\ ims_shoebox_coreAbsorptionModule(h, abs_wall)
    \/ \E h \in Handles, fs \in SampleRates, H_filt \in FilterBanks :
          /\ stage[h] \in {3, 4}
          /\ \E garbage \in GarbageReads(W[h]) : ims_shoebox_renderRIR(h, 0, fs, H_filt, garbage)

SpecPipe == Init /\ [][NextPipe]_vars

\* A narrow room, in which reflections of order up to two along x arrive
\* within the longer maximum delay (2.5 s at 1 m/s): lattice generation, directivity encoding and
\* absorption, in the session layer's order.
DeepRooms == {<<1, 5, 5>>}

DeepScenes ==
    { [src |-> <<1 * Half, 1 * Half, 1 * Half>>, rec |-> <<1 * Half, 2 * Half, 1 * Half>>],
      [src |-> <<1 * Half, 2 * Half, 1 * Half>>, rec |-> <<1 * Half, 1 * Half, 1 * Half>>] }

DeepTimes == {4 * Half, 5 * Half}

DeepSpeeds == {F(1)}

\* absorption coefficients per band and wall: lossless walls, and walls whose
\* reflection coefficients 0.8, 0.6, 0.9, 1.0, 1.0, 0.5 differ within each pair
DeepAbsWalls ==
    { [band \in AllBands |-> <<0, 0, 0, 0, 0, 0>>],
      [band \in AllBands |-> IF band = 0 THEN <<36, 64, 19, 0, 0, 75>>
                             ELSE <<0, 0, 0, 0, 0, 0>>],
      [band \in AllBands |-> <<36, 64, 19, 0, 0, 75>>] }

NextDeep ==
    \/ \E h \in Handles : W[h] = NULL /\ ims_shoebox_coreWorkspaceCreate(h, MaxBands)
    \/ \E h \in Handles : ims_shoebox_coreWorkspaceDestroy(h)
    \/ \E h \in Handles, room \in DeepRooms, sc \in DeepScenes, t \in DeepTimes, c \in DeepSpeeds :
          stage[h] \in {0, 3} /\ ims_shoebox_coreInit(h, room, sc.src, sc.rec, t, c)
    \/ \E h \in Handles, sh_order \in ShOrders :
          stage[h] \in {1, 2} /\ ims_shoebox_coreRecModuleSH(h, sh_order)
    \/ \E h \in Handles, abs_wall \in DeepAbsWalls :
          stage[h] \in {2, 3} /\ ims_shoebox_coreAbsorptionModule(h, abs_wall)

SpecDeep == Init /\ [][NextDeep]_vars

\* Two workspaces side by side, one per source, each taken through the
\* pipeline, destroyed and created again while the other lives on.
TwoHandles == {1, 2}

InitTwo ==
    /\ W = [h \in TwoHandles |-> NULL]
    /\ stage = [h \in TwoHandles |-> 0]
    /\ last = [op |-> "none"]
    /\ rir = [h \in TwoHandles |-> [length |-> 0, nChannels |-> 0, data |-> <<>>]]

TwoTimes == {2 * Half}

TwoShOrders == {0}

TwoAbsWalls == {[band \in {0} |-> <<36, 0, 64, 19, 0, 75>>]}

TwoFilterBanks == {[band \in {0} |-> [k \in 0 .. FirOrder |-> IF k = 0 THEN One ELSE 0]]}

NextTwo ==
    \/ \E h \in TwoHandles : W[h] = NULL /\ ims_shoebox_coreWorkspaceCreate(h, 1)
    \/ \E h \in TwoHandles : ims_shoebox_coreWorkspaceDestroy(h)
    \/ \E h \in TwoHandles, room \in PipeRooms, sc \in PipeScenes, t \in TwoTimes, c \in PipeSpeeds :
          stage[h] \in {0, 4} /\ ims_shoebox_coreInit(h, room, sc.src, sc.rec, t, c)
    \/ \E h \in TwoHandles, sh_order \in TwoShOrders :
          stage[h] = 1 /\ ims_shoebox_coreRecModuleSH(h, sh_order)
    \/ \E h \in TwoHandles, abs_wall \in TwoAbsWalls :
          stage[h] = 2 /\ ims_shoebox_coreAbsorptionModule(h, abs_wall)
    \/ \E h \in TwoHandles, fs \in SampleRates, H_filt \in TwoFilterBanks :
          /\ stage[h] = 3
          /\ \E garbage \in GarbageReads(W[h]) : ims_shoebox_renderRIR(h, 0, fs, H_filt, garbage)

SpecTwo == InitTwo /\ [][NextTwo]_vars

\* Rendering at two sample rates: the pipeline for one source and receiver,
\* with walls that differ from band to band, rendered again and again.
RenderScenes ==
    { [src |-> <<2 * Half, 1 * Half, 1 * Half>>, rec |-> <<2 * Half, 2 * Half, 1 * Half>>] }

RenderAbsWalls ==
    { [band \in AllBands |-> IF band = 0 THEN <<36, 0, 64, 19, 0, 75>>
                             ELSE <<One, One, One, One, One, One>>] }

RenderRates == {F(2), F(4)}

NextRender ==
    \/ \E h \in Handles : W[h] = NULL /\ ims_shoebox_coreWorkspaceCreate(h, MaxBands)
    \/ \E h \in Handles : ims_shoebox_coreWorkspaceDestroy(h)
    \/ \E h \in Handles, room \in PipeRooms, sc \in RenderScenes, t \in PipeTimes, c \in PipeSpeeds :
          stage[h] \in {0, 3, 4} /\ ims_shoebox_coreInit(h, room, sc.src, sc.rec, t, c)
    \/ \E h \in Handles, sh_order \in ShOrders :
          stage[h] \in {1, 2} /\ ims_shoebox_coreRecModuleSH(h, sh_order)
    \/ \E h \in Handles, abs_wall \in RenderAbsWalls :
          stage[h] \in {2, 3} /\ ims_shoebox_coreAbsorptionModule(h, abs_wall)
    \/ \E h \in Handles, fs \in RenderRates, H_filt \in FilterBanks :
          /\ stage[h] \in {3, 4}
          /\ \E garbage \in GarbageReads(W[h]) : ims_shoebox_renderRIR(h, 0, fs, H_filt, garbage)

SpecRender == Init /\ [][NextRender]_vars

\* Lattice generation in one room with source and receiver anywhere inside
\* it, the two at the same point included: in a 3 x 5 x 5 room the point
\* (0.5, 3.5, 1.5) lies 1 m from the centre along each axis.
FirstRooms == {<<3, 5, 5>>}

FirstScenes ==
    { [src |-> <<1 * Half, 7 * Half, 3 * Half>>, rec |-> <<1 * Half, 7 * Half, 3 * Half>>],
      [src |-> <<1 * Half, 7 * Half, 3 * Half>>, rec |-> <<2 * Half, 3 * Half, 2 * Half>>],
      [src |-> <<2 * Half, 1 * Half, 1 * Half>>, rec |-> <<1 * Half, 7 * Half, 3 * Half>>],
      [src |-> <<2 * Half, 1 * Half, 1 * Half>>, rec |-> <<1 * Half, 3 * Half, 2 * Half>>] }

NextFirst ==
    \/ \E h \in Handles : ims_shoebox_coreWorkspaceCreate(h, 1)
    \/ \E h \in Handles : ims_shoebox_coreWorkspaceDestroy(h)
    \/ \E h \in Handles, room \in FirstRooms, sc \in FirstScenes, t \in MaxTimes, c \in SoundSpeeds :
          ims_shoebox_coreInit(h, room, sc.src, sc.rec, t, c)

SpecFirst == Init /\ [][NextFirst]_vars

----------------------------------------------------------------------------
(* Properties of lattice generation *)

\* the workspace the last call was made on
Wl == W[last.h]

IsPermutation(f, n) ==
    /\ DOMAIN f = 0 .. n - 1
    /\ \A k \in 0 .. n - 1 : \E i \in 0 .. n - 1 : f[i] = k

\* (float)i back to the integer i
IntOf(x) == x \div One

\* the image source of lattice point (i, j, k) relative to the receiver, in
\* whole units, straight from the method of images
ExactCoord(t, room, src, rec) ==
    LET c(a, p) == IF a = 2 THEN (room[a] * One) \div 2 - p[a] ELSE p[a] - (room[a] * One) \div 2
        s(a) == t[a] * room[a] * One + (IF t[a] % 2 = 0 THEN 1 ELSE -1) * c(a, src) - c(a, rec)
    IN <<s(1), s(2), s(3)>>

\* the number of lattice points of a call whose squared distance is below d_max squared
LatticeCount(room, src, rec, d_max) ==
    LET Nx == LatticeExtent(d_max, room[1])
        Ny == LatticeExtent(d_max, room[2])
        Nz == LatticeExtent(d_max, room[3])
    IN Cardinality({t \in (-Nx .. Nx) \X (-Ny .. Ny) \X (-Nz .. Nz) :
          LET e == ExactCoord(t, room, src, rec)
          IN e[1] * e[1] + e[2] * e[2] + e[3] * e[3] < d_max * d_max})

\* C1: after every coreInit call, numImageSources of the workspace and of the
\* raw echogram equal the number of lattice points of that call's room and
\* d_max that lie strictly closer than that call's d_max.
C1_CountIsLatticeCount ==
    last.op = "coreInit" =>
        LET n == LatticeCount(last.room, last.src, last.rec, FMul(last.maxTime_s, last.c_ms))
        IN Wl.numImageSources = n /\ Wl.hEchogram.numImageSources = n

\* C2: a coreInit call whose arguments repeat those of the call before on the
\* same workspace is a no-op: neither block runs and the workspace, with its
\* cached keys, lattice arrays and raw echogram, is left as it was.
C2_RepeatIsNoOp ==
    [][(last'.op = "coreInit" /\ last'.again) =>
          (W' = W /\ ~last'.updIdx /\ ~last'.updEcho)]_vars

C2_Witness ==
    /\ last.op = "coreInit"
    /\ last.again
    /\ Wl.hEchogram.numImageSources > 1

\* C3: every arrival written by coreInit stores as its order the integer
\* lattice triple (i, j, k) of the image source it was generated from.
C3_OrderIsLatticeTriple ==
    (last.op = "coreInit" /\ last.updEcho) =>
        LET vs == ValidSeq(Wl.validIDs, Wl.lengthVec)
        IN \A v \in 0 .. Wl.hEchogram.numImageSources - 1 :
              Wl.hEchogram.order[v] =
                  <<IntOf(Wl.II[vs[v + 1]]), IntOf(Wl.JJ[vs[v + 1]]), IntOf(Wl.KK[vs[v + 1]])>>

\* ceil(a / b) for positive integers
CeilDiv(a, b) == (a + b - 1) \div b

\* C6: when coreInit regenerates the lattice, each axis extent is
\* ceil(d_max / room dimension), exact multiples included.
C6_ExtentIsCeil ==
    (last.op = "coreInit" /\ last.updIdx) =>
        /\ Wl.Nx = CeilDiv(Wl.d_max, last.room[1] * One)
        /\ Wl.Ny = CeilDiv(Wl.d_max, last.room[2] * One)
        /\ Wl.Nz = CeilDiv(Wl.d_max, last.room[3] * One)

\* C7: after a coreInit call that recomputes the echogram, sortedIdx is a
\* permutation of [0, numImageSources) and time read through it is non-decreasing.
C7_SortedIdxOrdersTime ==
    (last.op = "coreInit" /\ last.updEcho) =>
        LET ec == Wl.hEchogram
        IN /\ IsPermutation(ec.sortedIdx, ec.numImageSources)
           /\ \A i \in 0 .. ec.numImageSources - 2 :
                 ec.time[ec.sortedIdx[i]] <= ec.time[ec.sortedIdx[i + 1]]

\* a recomputed echogram whose arrivals are not in time order as generated
C7_Witness ==
    /\ last.op = "coreInit"
    /\ last.updEcho
    /\ \E i \in 0 .. Wl.hEchogram.numImageSources - 2 :
          Wl.hEchogram.time[i] > Wl.hEchogram.time[i + 1]

\* the lattice triple (i, j, k) held at index n of II, JJ, KK
LatticeTriple(wrk, n) == <<IntOf(wrk.II[n]), IntOf(wrk.JJ[n]), IntOf(wrk.KK[n])>>

\* squared distance of an image source from the receiver, from the method of
\* images in whole units
ExactDistSq(t, room, src, rec) ==
    LET e == ExactCoord(t, room, src, rec)
    IN e[1] * e[1] + e[2] * e[2] + e[3] * e[3]

\* C12: every arrival written by coreInit has time = distance / c_ms and a
\* single omni gain of 1.0 when distance <= 1 and 1 / distance otherwise, so
\* no gain exceeds 1.
C12_TimeAndClampedGain ==
    (last.op = "coreInit" /\ last.updEcho) =>
        LET ec == Wl.hEchogram
            vs == ValidSeq(Wl.validIDs, Wl.lengthVec)
        IN \A v \in 0 .. ec.numImageSources - 1 :
              LET d2 == ExactDistSq(LatticeTriple(Wl, vs[v + 1]), last.room, last.src, last.rec)
                  d  == Sqrtf(d2 \div One)
              IN /\ ec.time[v] = FDiv(d, last.c_ms)
                 /\ DOMAIN ec.value[v] = {0}
                 /\ ec.value[v][0] = (IF d2 <= One * One THEN One ELSE FDiv(One, d))
                 /\ ec.value[v][0] <= One

\* a direct path shorter than one metre together with a longer reflection
C12_Witness ==
    /\ last.op = "coreInit"
    /\ last.updEcho
    /\ LET ec == Wl.hEchogram
           vs == ValidSeq(Wl.validIDs, Wl.lengthVec)
       IN /\ \E v \in 0 .. ec.numImageSources - 1 :
                /\ LatticeTriple(Wl, vs[v + 1]) = <<0, 0, 0>>
                /\ 0 < Wl.s_d[vs[v + 1]] /\ Wl.s_d[vs[v + 1]] < One
          /\ \E v \in 0 .. ec.numImageSources - 1 : Wl.s_d[vs[v + 1]] > One

\* C15: a coreInit call whose room differs from the room of the call before
\* on the same workspace runs the echogram block, whatever the positions are,
\* and leaves the image-source coordinates of the new room in the workspace.
C15_RoomChangeRecomputes ==
    [][( /\ last.op = "coreInit"
         /\ last'.op = "coreInit"
         /\ last'.h = last.h
         /\ last'.room # last.room )
       => ( /\ last'.updEcho
            /\ LET w == W'[last'.h]
               IN \A n \in 0 .. w.lengthVec - 1 :
                     <<w.s_x[n], w.s_y[n], w.s_z[n]>> =
                         ExactCoord(LatticeTriple(w, n), last'.room, last'.src, last'.rec) )]_vars

\* the lattice geometry of a workspace with its key d_max
LatticeGeometry(wrk) ==
    <<wrk.Nx, wrk.Ny, wrk.Nz, wrk.lengthVec, wrk.II, wrk.JJ, wrk.KK, wrk.d_max>>

\* C16: coreInit regenerates the lattice geometry exactly when d_max or a
\* room dimension differs from the cached value; otherwise (as in a call that
\* only moves the source or receiver) Nx, Ny, Nz, lengthVec, II, JJ, KK and
\* the cached d_max are left as they were.
C16_LatticeKeyedOnDmaxAndRoom ==
    [][last'.op = "coreInit" =>
          LET w     == W[last'.h]
              w2    == W'[last'.h]
              d_max == FMul(last'.maxTime_s, last'.c_ms)
          IN IF w.d_max = d_max /\ w.room = last'.room
             THEN ~last'.updIdx /\ LatticeGeometry(w2) = LatticeGeometry(w)
             ELSE /\ last'.updIdx
                  /\ w2.d_max = d_max
                  /\ w2.room = last'.room
                  /\ w2.lengthVec = (2 * w2.Nx + 1) * (2 * w2.Ny + 1) * (2 * w2.Nz + 1)
                  /\ DOMAIN w2.II = 0 .. w2.lengthVec - 1]_vars

\* a call that moved the source or receiver only: the echogram block ran, the
\* lattice block did not
C16_Witness ==
    /\ last.op = "coreInit"
    /\ ~last.updIdx
    /\ last.updEcho
    /\ Wl.lengthVec > 1

\* C17: after lattice regeneration lengthVec = (2Nx+1)(2Ny+1)(2Nz+1) and
\* II, JJ, KK hold every triple of [-Nx, Nx] x [-Ny, Ny] x [-Nz, Nz] exactly
\* once, in odometer order from (-Nx, -Ny, -Nz) with i fastest, then j, then k.
C17_OdometerEnumeratesLattice ==
    (last.op = "coreInit" /\ last.updIdx) =>
        LET nx == 2 * Wl.Nx + 1
            ny == 2 * Wl.Ny + 1
            nz == 2 * Wl.Nz + 1
        IN /\ Wl.lengthVec = nx * ny * nz
           /\ DOMAIN Wl.II = 0 .. Wl.lengthVec - 1
           /\ DOMAIN Wl.JJ = 0 .. Wl.lengthVec - 1
           /\ DOMAIN Wl.KK = 0 .. Wl.lengthVec - 1
           /\ \A n \in 0 .. Wl.lengthVec - 1 :
                 /\ Wl.II[n] = F((n % nx) - Wl.Nx)
                 /\ Wl.JJ[n] = F(((n \div nx) % ny) - Wl.Ny)
                 /\ Wl.KK[n] = F((n \div (nx * ny)) - Wl.Nz)
           /\ \A t \in (-Wl.Nx .. Wl.Nx) \X (-Wl.Ny .. Wl.Ny) \X (-Wl.Nz .. Wl.Nz) :
                 Cardinality({n \in 0 .. Wl.lengthVec - 1 : LatticeTriple(Wl, n) = t}) = 1

\* a regenerated lattice that extends two steps along x and one along y and z
C17_Witness ==
    /\ last.op = "coreInit"
    /\ last.updIdx
    /\ Wl.Nx = 2 /\ Wl.Ny = 1 /\ Wl.Nz = 1
    /\ Wl.lengthVec = 45

\* a position relative to the centre of the room, y pointing the other way
Centred(room, p) ==
    << p[1] - (room[1] * One) \div 2, (room[2] * One) \div 2 - p[2], p[3] - (room[3] * One) \div 2 >>

\* C18: in a call that recomputes the echogram, the image source of every
\* lattice point (i, j, k) has, on each axis, the coordinate
\* i*L + (-1)^i * src_c - rec_c with src_c, rec_c the room-centred positions
\* (y flipped), its distance is the Euclidean norm, every arrival's coords are
\* those of its image source, and lattice point (0,0,0) gives src_c - rec_c.
C18_ImageCoordinates ==
    (last.op = "coreInit" /\ last.updEcho) =>
        LET src_c == Centred(last.room, last.src)
            rec_c == Centred(last.room, last.rec)
            Mirror(i) == IF i % 2 = 0 THEN 1 ELSE -1
            S(a, i) == i * last.room[a] * One + Mirror(i) * src_c[a] - rec_c[a]
            vs == ValidSeq(Wl.validIDs, Wl.lengthVec)
        IN /\ Wl.src = src_c
           /\ Wl.rec = rec_c
           /\ \A n \in 0 .. Wl.lengthVec - 1 :
                 LET t == LatticeTriple(Wl, n)
                 IN /\ Wl.s_x[n] = S(1, t[1])
                    /\ Wl.s_y[n] = S(2, t[2])
                    /\ Wl.s_z[n] = S(3, t[3])
                    /\ Wl.s_d[n] = Sqrtf((S(1, t[1]) * S(1, t[1]) + S(2, t[2]) * S(2, t[2])
                                          + S(3, t[3]) * S(3, t[3])) \div One)
                    /\ t = <<0, 0, 0>> =>
                          <<Wl.s_x[n], Wl.s_y[n], Wl.s_z[n]>> =
                              <<src_c[1] - rec_c[1], src_c[2] - rec_c[2], src_c[3] - rec_c[3]>>
           /\ \A v \in 0 .. Wl.hEchogram.numImageSources - 1 :
                 Wl.hEchogram.coords[v] = <<Wl.s_x[vs[v + 1]], Wl.s_y[vs[v + 1]], Wl.s_z[vs[v + 1]]>>

\* a recomputed echogram holding the direct path and a reflection from an
\* odd lattice point, with source and receiver at different y
C18_Witness ==
    /\ last.op = "coreInit"
    /\ last.updEcho
    /\ last.src[2] # last.rec[2]
    /\ LET vs == ValidSeq(Wl.validIDs, Wl.lengthVec)
       IN /\ \E v \in 0 .. Wl.hEchogram.numImageSources - 1 :
                LatticeTriple(Wl, vs[v + 1]) = <<0, 0, 0>>
          /\ \E v \in 0 .. Wl.hEchogram.numImageSources - 1 :
                LatticeTriple(Wl, vs[v + 1])[1] % 2 = 1

----------------------------------------------------------------------------
(* Properties of the pipeline *)

AllOnes == <<One, One, One, One, One, One>>

\* sum over the bands 0 .. band of sample n of channel i of the band's
\* impulse train convolved with the band's filter
RECURSIVE SumFiltered(_, _, _, _, _, _)
SumFiltered(rir_bands, H_filt, band, i, n, len) ==
    IF band < 0 THEN 0
    ELSE fftconv(rir_bands[band][i], len, H_filt[band], FirOrder + 1)[n]
         + SumFiltered(rir_bands, H_filt, band - 1, i, n, len)

\* C4: after renderRIR the final RIR data of every channel is the sum over
\* the bands of the band's impulse train convolved with the band's filter.
C4_RirIsSumOfFilteredBands ==
    (last.op = "renderRIR" /\ ~last.oob) =>
        \A k \in DOMAIN rir[last.h].data :
            rir[last.h].data[k] =
                SumFiltered(Wl.rir_bands, last.H_filt, Wl.nBands - 1,
                            k \div Wl.rir_len_samples, k % Wl.rir_len_samples,
                            Wl.rir_len_samples)

\* C5: with empty band echograms renderRIR reads the time array only at
\* indices inside [0, numImageSources) when it looks up the last echo time.
C5_EmptyEchogramReadInBounds ==
    ( /\ last.op = "renderRIR"
      /\ \A band \in 0 .. Wl.nBands - 1 : Wl.hEchogram_abs[band].numImageSources = 0 )
    => last.endTimeInBounds

\* C8: after coreRecModuleSH the encoded echogram's time array is
\* non-decreasing in array index and its sortedIdx is the identity.
C8_EncodedIsTimeOrdered ==
    last.op = "coreRecModuleSH" =>
        LET ec == Wl.hEchogram_rec
        IN /\ \A i \in 0 .. ec.numImageSources - 2 : ec.time[i] <= ec.time[i + 1]
           /\ \A i \in 0 .. ec.numImageSources - 1 : ec.sortedIdx[i] = i

\* an encoding of a raw echogram whose arrivals were not generated in time order
C8_Witness ==
    /\ last.op = "coreRecModuleSH"
    /\ \E i \in 0 .. Wl.hEchogram.numImageSources - 2 :
          Wl.hEchogram.time[i] > Wl.hEchogram.time[i + 1]

\* C9: at spherical-harmonic order 0 the encoded echogram has one channel
\* that holds the raw echogram's omni gains, unweighted.
C9_OrderZeroCopiesGains ==
    (last.op = "coreRecModuleSH" /\ last.sh_order = 0) =>
        /\ Wl.hEchogram_rec.nChannels = 1
        /\ \A i \in 0 .. Wl.hEchogram_rec.numImageSources - 1 :
              /\ DOMAIN Wl.hEchogram_rec.value[i] = {0}
              /\ Wl.hEchogram_rec.value[i][0]
                    = Wl.hEchogram.value[Wl.hEchogram.sortedIdx[i]][0]

C9_Witness ==
    /\ last.op = "coreRecModuleSH"
    /\ last.sh_order = 0
    /\ Wl.hEchogram_rec.numImageSources > 1

\* C10: in a band whose wall absorption coefficients are all 1, every
\* arrival other than the direct path has all gains 0 and the direct path
\* keeps the gains of the encoded echogram.
C10_FullAbsorptionLeavesDirectPath ==
    last.op = "coreAbsorptionModule" =>
        \A band \in 0 .. Wl.nBands - 1 :
            last.abs_wall[band] = AllOnes =>
                LET ea == Wl.hEchogram_abs[band]
                    direct == <<Wl.src[1] - Wl.rec[1], Wl.src[2] - Wl.rec[2], Wl.src[3] - Wl.rec[3]>>
                IN \A i \in 0 .. ea.numImageSources - 1 :
                      IF ea.coords[i] = direct
                      THEN ea.value[i] = Wl.hEchogram_rec.value[i]
                      ELSE \A j \in 0 .. ea.nChannels - 1 : ea.value[i][j] = 0

\* round(time * fs) of a non-negative time
RoundedSample(time, fs) == (2 * FMul(time, fs) + One) \div (2 * One)

\* sum of channel j's gains over the arrivals in the set is
RECURSIVE GainSum(_, _, _)
GainSum(ec, j, is) ==
    IF is = {} THEN 0
    ELSE LET i == CHOOSE x \in is : TRUE
         IN ec.value[i][j] + GainSum(ec, j, is \ {i})

\* C13: in every band's impulse train built by renderRIR, sample n of each
\* channel is the sum of that channel's gains over the arrivals with
\* round(time * fs) = n, and 0 where no arrival lands.
C13_ImpulseTrainSumsArrivals ==
    (last.op = "renderRIR" /\ last.endTimeInBounds) =>
        \A band \in 0 .. Wl.nBands - 1 :
            LET ea == Wl.hEchogram_abs[band]
            IN /\ DOMAIN Wl.rir_bands[band] = 0 .. ea.nChannels - 1
               /\ \A j \in 0 .. ea.nChannels - 1 :
                     /\ DOMAIN Wl.rir_bands[band][j] = 0 .. Wl.rir_len_samples - 1
                     /\ \A n \in 0 .. Wl.rir_len_samples - 1 :
                           Wl.rir_bands[band][j][n] =
                               GainSum(ea, j, {i \in 0 .. ea.numImageSources - 1 :
                                                  RoundedSample(ea.time[i], last.fs) = n})
                     /\ \A i \in 0 .. ea.numImageSources - 1 :
                           RoundedSample(ea.time[i], last.fs) \in 0 .. Wl.rir_len_samples - 1

\* a rendered band in which two arrivals with gain land on one sample
C13_Witness ==
    /\ last.op = "renderRIR"
    /\ last.endTimeInBounds
    /\ \E band \in 0 .. Wl.nBands - 1 :
          LET ea == Wl.hEchogram_abs[band]
          IN \E i1, i2 \in 0 .. ea.numImageSources - 1 :
                /\ i1 # i2
                /\ RoundedSample(ea.time[i1], last.fs) = RoundedSample(ea.time[i2], last.fs)
                /\ ea.value[i1][0] > 0 /\ ea.value[i2][0] > 0

\* C14: a call on one workspace (create, coreInit, coreRecModuleSH,
\* coreAbsorptionModule, renderRIR or destroy) leaves every other workspace,
\* with all its fields and echograms, and that workspace's RIR as they were.
C14_WorkspacesIndependent ==
    [][\A g \in DOMAIN W : g # last'.h => (W'[g] = W[g] /\ rir'[g] = rir[g])]_vars

\* one workspace has just been destroyed while another, fully rendered, lives on
C14_Witness ==
    /\ last.op = "destroy"
    /\ \E g \in DOMAIN W :
          /\ g # last.h
          /\ W[g] # NULL
          /\ stage[g] = 4
          /\ W[g].hEchogram.numImageSources > 1
          /\ rir[g].length > 0

----------------------------------------------------------------------------
(* Properties of absorption *)

NoAbsorption == <<0, 0, 0, 0, 0, 0>>

\* C11: in a band whose wall absorption coefficients are all 0, every
\* arrival's total attenuation is exactly 1.0 and the band echogram's gains
\* equal the encoded echogram's gains, whatever the arrival's order triple.
C11_LosslessWallsKeepGains ==
    last.op = "coreAbsorptionModule" =>
        \A band \in 0 .. Wl.nBands - 1 :
            last.abs_wall[band] = NoAbsorption =>
                LET ea == Wl.hEchogram_abs[band]
                IN /\ ea.numImageSources = Wl.hEchogram_rec.numImageSources
                   /\ \A i \in 0 .. ea.numImageSources - 1 :
                         /\ TotalAbs(ea.order[i], last.abs_wall[band]) = One
                         /\ ea.value[i] = Wl.hEchogram_rec.value[i]

\* a lossless band holding arrivals of negative, zero and second order along x
C11_Witness ==
    /\ last.op = "coreAbsorptionModule"
    /\ \E band \in 0 .. Wl.nBands - 1 :
          /\ last.abs_wall[band] = NoAbsorption
          /\ LET ea == Wl.hEchogram_abs[band]
             IN /\ \E i \in 0 .. ea.numImageSources - 1 : ea.order[i][1] < 0 /\ ea.value[i][0] > 0
                /\ \E i \in 0 .. ea.numImageSources - 1 : ea.order[i][1] = 2 /\ ea.value[i][0] > 0
                /\ \E i \in 0 .. ea.numImageSources - 1 : ea.order[i] = <<0, 1, 0>>

\* the exponents of the low-wall and high-wall reflection coefficients for the
\* stored order m of one axis
WallHits(m) ==
    IF m % 2 = 0 THEN <<Abs(m) \div 2, Abs(m) \div 2>>
    ELSE IF m > 0 THEN <<(m + 1) \div 2, (m - 1) \div 2>>
    ELSE <<(Abs(m) - 1) \div 2, (Abs(m) + 1) \div 2>>

\* r to the power n, n a natural number
RECURSIVE IntPow(_, _)
IntPow(r, n) == IF n = 0 THEN One ELSE FMul(r, IntPow(r, n - 1))

\* attenuation along axis a (1, 2, 3) for the stored order m: the low wall's
\* reflection coefficient to the first exponent times the high wall's to the second
AxisAttenuation(abs_band, a, m) ==
    FMul(IntPow(Sqrtf(One - abs_band[2 * a - 1]), WallHits(m)[1]),
         IntPow(Sqrtf(One - abs_band[2 * a]), WallHits(m)[2]))

ArrivalAttenuation(abs_band, order) ==
    FMul(FMul(AxisAttenuation(abs_band, 1, order[1]), AxisAttenuation(abs_band, 2, order[2])),
         AxisAttenuation(abs_band, 3, order[3]))

\* C19: for every arrival and axis with stored order m the absorption module
\* raises the low-wall and high-wall reflection coefficients to (|m|/2, |m|/2)
\* for even m, (ceil(m/2), floor(m/2)) for odd m > 0 and
\* (floor(|m|/2), ceil(|m|/2)) for odd m < 0, exponents that sum to |m|; the
\* product over the three axes multiplies every channel of the arrival's gains.
C19_WallHitExponents ==
    last.op = "coreAbsorptionModule" =>
        \A band \in 0 .. Wl.nBands - 1 :
            \A i \in 0 .. Wl.hEchogram_abs[band].numImageSources - 1 :
                /\ \A a \in 1 .. 3 :
                      WallHits(Wl.hEchogram_abs[band].order[i][a])[1]
                        + WallHits(Wl.hEchogram_abs[band].order[i][a])[2]
                        = Abs(Wl.hEchogram_abs[band].order[i][a])
                /\ DOMAIN Wl.hEchogram_abs[band].value[i] = 0 .. Wl.hEchogram_abs[band].nChannels - 1
                /\ \A j \in 0 .. Wl.hEchogram_abs[band].nChannels - 1 :
                      Wl.hEchogram_abs[band].value[i][j] =
                          FMul(Wl.hEchogram_rec.value[i][j],
                               ArrivalAttenuation(last.abs_wall[band],
                                                  Wl.hEchogram_abs[band].order[i]))

\* a band with different reflection coefficients on the two x walls, holding
\* arrivals of stored x order -1, 1 and 2 on several channels
C19_Witness ==
    /\ last.op = "coreAbsorptionModule"
    /\ \E band \in 0 .. Wl.nBands - 1 :
          LET ea == Wl.hEchogram_abs[band]
          IN /\ last.abs_wall[band][1] # last.abs_wall[band][2]
             /\ ea.nChannels > 1
             /\ \E i \in 0 .. ea.numImageSources - 1 : ea.order[i][1] = -1 /\ ea.value[i][0] > 0
             /\ \E i \in 0 .. ea.numImageSources - 1 : ea.order[i][1] = 1 /\ ea.value[i][0] > 0
             /\ \E i \in 0 .. ea.numImageSources - 1 : ea.order[i][1] = 2 /\ ea.value[i][0] > 0

\* C20: the absorption module copies time, order, coords and sortedIdx of the
\* encoded echogram into every band echogram as they are, and leaves the
\* encoded echogram and the raw echogram unchanged.
C20_AbsorptionCopiesAndLeavesSource ==
    [][last'.op = "coreAbsorptionModule" =>
          LET w   == W[last'.h]
              w2  == W'[last'.h]
              rec == w.hEchogram_rec
          IN /\ w2.hEchogram_rec = rec
             /\ w2.hEchogram = w.hEchogram
             /\ DOMAIN w2.hEchogram_abs = 0 .. w.nBands - 1
             /\ \A band \in 0 .. w.nBands - 1 :
                   /\ w2.hEchogram_abs[band].numImageSources = rec.numImageSources
                   /\ w2.hEchogram_abs[band].nChannels = rec.nChannels
                   /\ w2.hEchogram_abs[band].time = rec.time
                   /\ w2.hEchogram_abs[band].order = rec.order
                   /\ w2.hEchogram_abs[band].coords = rec.coords
                   /\ w2.hEchogram_abs[band].sortedIdx = rec.sortedIdx]_vars

\* absorption has attenuated an arrival of a band copy below the encoded
\* echogram's gain
C20_Witness ==
    /\ last.op = "coreAbsorptionModule"
    /\ Wl.hEchogram_rec.numImageSources > 1
    /\ \E band \in 0 .. Wl.nBands - 1 :
          \E i \in 0 .. Wl.hEchogram_rec.numImageSources - 1 :
              /\ Wl.hEchogram_abs[band].value[i][0] < Wl.hEchogram_rec.value[i][0]
              /\ Wl.hEchogram_abs[band].time[i] = Wl.hEchogram_rec.time[i]

\* the arrays of an echogram are sized for its numImageSources and nChannels
SizedFor(ec) ==
    /\ DOMAIN ec.time = 0 .. ec.numImageSources - 1
    /\ DOMAIN ec.order = 0 .. ec.numImageSources - 1
    /\ DOMAIN ec.coords = 0 .. ec.numImageSources - 1
    /\ DOMAIN ec.sortedIdx = 0 .. ec.numImageSources - 1
    /\ DOMAIN ec.value = 0 .. ec.numImageSources - 1
    /\ \A i \in 0 .. ec.numImageSources - 1 : DOMAIN ec.value[i] = 0 .. ec.nChannels - 1

\* C21: after coreRecModuleSH(sh_order) the encoded echogram has
\* (sh_order+1)^2 channels and as many arrivals as the raw echogram; after
\* coreAbsorptionModule every band echogram has the encoded echogram's
\* numImageSources and nChannels; in any sequence of pipeline runs.
C21_PipelineSizesAgree ==
    /\ last.op = "coreRecModuleSH" =>
          /\ Wl.hEchogram_rec.nChannels = (last.sh_order + 1) * (last.sh_order + 1)
          /\ Wl.hEchogram_rec.numImageSources = Wl.hEchogram.numImageSources
          /\ SizedFor(Wl.hEchogram_rec)
    /\ last.op = "coreAbsorptionModule" =>
          /\ \E sh_order \in ShOrders :
                Wl.hEchogram_rec.nChannels = (sh_order + 1) * (sh_order + 1)
          /\ Wl.hEchogram_rec.numImageSources = Wl.hEchogram.numImageSources
          /\ \A band \in 0 .. Wl.nBands - 1 :
                /\ Wl.hEchogram_abs[band].numImageSources = Wl.hEchogram_rec.numImageSources
                /\ Wl.hEchogram_abs[band].nChannels = Wl.hEchogram_rec.nChannels
                /\ SizedFor(Wl.hEchogram_abs[band])

\* band echograms of four channels and several arrivals
C21_Witness ==
    /\ last.op = "coreAbsorptionModule"
    /\ Wl.hEchogram_rec.nChannels = 4
    /\ Wl.hEchogram.numImageSources > 2
    /\ Wl.hEchogram_abs[0].numImageSources = Wl.hEchogram.numImageSources

\* C26: the first coreInit on a freshly created workspace runs both of its
\* blocks, the lattice and the raw echogram, whatever the room and the
\* positions inside it.
C26_FirstCallComputes ==
    [][ \A h \in Handles :
          (/\ W[h] # NULL
           /\ W[h] = NewWorkspace(W[h].nBands)
           /\ W'[h] # NULL
           /\ last'.op = "coreInit"
           /\ last'.h = h)
          => /\ last'.updIdx
             /\ last'.updEcho
             /\ W'[h].lengthVec > 0 ]_vars

\* C28: a coreAbsorptionModule call that repeats the call before it, with the
\* same coefficients on the same workspace, leaves every band echogram as
\* that call left it.
C28_AbsorptionNotCumulative ==
    [][ (last'.op = "coreAbsorptionModule" /\ last'.again)
          => /\ W'[last'.h].hEchogram_abs = W[last'.h].hEchogram_abs
             /\ W'[last'.h] = W[last'.h] ]_vars

\* absorption has just been repeated with walls that attenuate a reflection
\* of band 0 without removing it
C28_Witness ==
    /\ last.op = "coreAbsorptionModule"
    /\ last.again
    /\ \E i \in 0 .. Wl.hEchogram_abs[0].numImageSources - 1 :
          /\ Wl.hEchogram_abs[0].value[i][0] > 0
          /\ Wl.hEchogram_abs[0].value[i][0] < Wl.hEchogram_rec.value[i][0]

----------------------------------------------------------------------------
(* Properties of the echogram container *)

\* the echograms of a workspace: raw, encoded and one per band
EchogramsOf(wrk) ==
    {wrk.hEchogram, wrk.hEchogram_rec} \cup {wrk.hEchogram_abs[band] : band \in 0 .. wrk.nBands - 1}

\* C24: echogramResize leaves an echogram exactly as it is when the requested
\* numImageSources and nChannels are its current ones; otherwise the echogram
\* takes the requested values and its five arrays are sized for them.  A
\* freshly created echogram has numImageSources = 0 and nChannels = 0.
C24_ResizeOnlyOnChange ==
    /\ last.op = "create" =>
          \A ec \in EchogramsOf(Wl) : ec.numImageSources = 0 /\ ec.nChannels = 0
    /\ last.op \in {"create", "coreInit", "coreRecModuleSH", "coreAbsorptionModule"} =>
          \A ec \in EchogramsOf(Wl) :
              \A n \in {0, 1, 3, ec.numImageSources}, c \in {1, 4, ec.nChannels} :
                  LET resized == ims_shoebox_echogramResize(ec, n, c)
                  IN IF n = ec.numImageSources /\ c = ec.nChannels
                     THEN resized = ec
                     ELSE /\ resized.numImageSources = n
                          /\ resized.nChannels = c
                          /\ SizedFor(resized)

\* a workspace whose band echograms hold several arrivals on four channels
C24_Witness ==
    /\ last.op = "coreAbsorptionModule"
    /\ Wl.hEchogram.numImageSources > 2
    /\ Wl.hEchogram.nChannels = 1
    /\ Wl.hEchogram_abs[0].nChannels = 4
    /\ Wl.hEchogram_abs[0].numImageSources > 2

----------------------------------------------------------------------------
(* Properties of directivity encoding *)

\* C25: output arrival i of coreRecModuleSH takes its time, order, coord and
\* omni gain from the one raw arrival sortedIdx[i], and for sh_order > 0 its
\* spherical-harmonic weights are those of that arrival's coord.
C25_EncodedArrivalConsistent ==
    last.op = "coreRecModuleSH" =>
        \A i \in 0 .. Wl.hEchogram_rec.numImageSources - 1 :
            LET from == Wl.hEchogram.sortedIdx[i]
            IN /\ Wl.hEchogram_rec.time[i] = Wl.hEchogram.time[from]
               /\ Wl.hEchogram_rec.order[i] = Wl.hEchogram.order[from]
               /\ Wl.hEchogram_rec.coords[i] = Wl.hEchogram.coords[from]
               /\ \A j \in 0 .. Wl.hEchogram_rec.nChannels - 1 :
                     Wl.hEchogram_rec.value[i][j] =
                         (IF last.sh_order = 0 THEN Wl.hEchogram.value[from][0]
                          ELSE FMul(SHGains(last.sh_order, Wl.hEchogram.coords[from])[j],
                                    Wl.hEchogram.value[from][0]))

\* a first-order encoding in which an output arrival comes from a raw arrival
\* at a different index, whose direction gives different weights
C25_Witness ==
    /\ last.op = "coreRecModuleSH"
    /\ last.sh_order = 1
    /\ \E i \in 0 .. Wl.hEchogram_rec.numImageSources - 1 :
          /\ Wl.hEchogram.sortedIdx[i] # i
          /\ SHGains(1, Wl.hEchogram.coords[i])
               # SHGains(1, Wl.hEchogram.coords[Wl.hEchogram.sortedIdx[i]])
          /\ Wl.hEchogram.value[Wl.hEchogram.sortedIdx[i]][0] > 0

----------------------------------------------------------------------------
(* Properties of rendering *)

\* the time of the last arrival of a band echogram
LastArrival(ea) == ea.time[ea.numImageSources - 1]

\* floor and ceiling of a non-negative float, as integers
FloorInt(x) == x \div One
CeilInt(x) == (x + One - 1) \div One

C23_RirSizedToRender ==
    [][(last'.op = "renderRIR" /\ last'.endTimeInBounds) =>
          LET h == last'.h
          IN /\ \A band \in 0 .. W'[h].nBands - 1 :
                   rir'[h].nChannels = W'[h].hEchogram_abs[band].nChannels
             /\ rir'[h].length = W'[h].rir_len_samples
             /\ DOMAIN rir'[h].data = 0 .. rir'[h].nChannels * rir'[h].length - 1
             /\ last'.resized <=> ( \/ rir[h].nChannels # rir'[h].nChannels
                                    \/ rir[h].length # rir'[h].length )]_vars

\* a render into a four-channel rir that already had the right size
C23_Witness ==
    /\ last.op = "renderRIR"
    /\ last.endTimeInBounds
    /\ ~last.resized
    /\ rir[last.h].nChannels = 4
    /\ rir[last.h].length > 2

\* C27: in a render of non-empty band echograms every arrival's sample index
\* round(time * fs) lies in 0 .. rir_len_samples - 1, inside the band's
\* impulse-train buffer of nChannels x rir_len_samples, and every band
\* computes the same rir_len_samples.
C27_SampleIndicesInRange ==
    (last.op = "renderRIR" /\ last.endTimeInBounds) =>
        /\ ~last.oob
        /\ \A band \in 0 .. Wl.nBands - 1 :
              LET ea == Wl.hEchogram_abs[band]
              IN /\ RirLenSamples(ea.time[ea.numImageSources - 1], last.fs) = Wl.rir_len_samples
                 /\ ea.time = Wl.hEchogram_abs[0].time
                 /\ BandLen(Wl.rir_bands[band]) = Wl.rir_len_samples
                 /\ \A i \in 0 .. ea.numImageSources - 1 :
                       /\ RoundedSample(ea.time[i], last.fs) >= 0
                       /\ RoundedSample(ea.time[i], last.fs) < Wl.rir_len_samples
                       /\ ReflIdx(ea.time[i], last.fs) = RoundedSample(ea.time[i], last.fs)

\* a render of several arrivals at different samples in which the last one
\* is rounded up, onto the last but one sample of the buffer
C27_Witness ==
    /\ last.op = "renderRIR"
    /\ last.endTimeInBounds
    /\ LET ea == Wl.hEchogram_abs[0]
           n == ea.numImageSources
       IN /\ n > 2
          /\ RoundedSample(ea.time[0], last.fs) < RoundedSample(ea.time[n - 1], last.fs)
          /\ RoundedSample(ea.time[n - 1], last.fs) > FloorInt(FMul(ea.time[n - 1], last.fs))
          /\ RoundedSample(ea.time[n - 1], last.fs) = Wl.rir_len_samples - 1

\* C29: a renderRIR call that repeats the call before it, with the same fs
\* and filters on the same workspace and non-empty band echograms, leaves
\* the data, length and channel count of the rir, and the band impulse
\* trains, as that call left them.
C29_RenderNotCumulative ==
    [][ (last'.op = "renderRIR" /\ last'.again /\ last'.endTimeInBounds)
          => /\ rir'[last'.h] = rir[last'.h]
             /\ W'[last'.h].rir_bands = W[last'.h].rir_bands
             /\ W'[last'.h].rir_len_samples = W[last'.h].rir_len_samples ]_vars

\* a render has just been repeated and the rir holds a sample that is not 0
C29_Witness ==
    /\ last.op = "renderRIR"
    /\ last.again
    /\ last.endTimeInBounds
    /\ rir[last.h].nChannels = 4
    /\ \E k \in DOMAIN rir[last.h].data : rir[last.h].data[k] > 0
    /\ \E band \in 0 .. Wl.nBands - 1 :
          \E n \in DOMAIN Wl.rir_bands[band][0] : Wl.rir_bands[band][0][n] > 0

----------------------------------------------------------------------------
(* Properties of the workspace lifecycle *)

\* C30: once coreWorkspaceDestroy has returned, the caller's handle is NULL
\* and no block allocated for the workspace is still allocated: lattice
\* arrays, the echograms of the three roles, the array of band echogram
\* handles, the band impulse-train buffers and the array that holds them.
C30_DestroyFreesEverything ==
    last.op = "destroy" =>
        /\ W[last.h] = NULL
        /\ last.live = {}

====
